---------------------------- MODULE Spec2Model ----------------------------
(***************************************************************************)
(* A model of fill_metrics.py: the resumable scraper that fills the likes  *)
(* and comments columns of posts_raw.csv into posts_filled.csv.            *)
(*                                                                         *)
(* The module holds several specifications over one set of variables:      *)
(*   Spec          the run loop of main() from the state after load        *)
(*   SpecGuard     the same run loop on a longer, fresh dataset            *)
(*   SpecLoad      the resume merge and numeric coercion of main()         *)
(*   SpecSave      atomic_save step by step, with the process killable     *)
(*   SpecLogin     ensure_logged_in step by step                           *)
(*   SpecValidate  validate_metrics on bounded integer-or-None inputs      *)
(*   SpecExtract   extract_likes_comments over its three reads             *)
(*   SpecToInt     to_int on bounded strings                               *)
(*   SpecResume    the run loop loaded against a misaligned prior output   *)
(*   SpecCoerce    the run loop after a load that coerced text cells       *)
(*   SpecEscalate  the run loop with a recovery threshold of 1 or 2        *)
(*   SpecStreak    the run loop on a dataset longer than the guard streak  *)
(*   SpecLive      Spec without interrupts, under weak fairness            *)
(* A specification leaves the variables of the others at their idle value. *)
(***************************************************************************)
EXTENDS Integers, Sequences, FiniteSets, TLC

VARIABLES
    pc,                 \* position of the modelled code
    arg, ret,           \* argument and result of a pure function under check
    raw,                \* df_raw: the rows of INPUT
    prev,               \* what OUTPUT held when main() started (NoFile if unusable)
    out,                \* the in-memory dataset `out`
    file,               \* the file at OUTPUT
    tmp,                \* the file at OUTPUT + ".tmp"
    cfg,                \* the configuration: START_ROW, TEST_LIMIT, RETRY_PER_POST,
                        \* MAX_CONSECUTIVE_ERRORS, SAVE_INTERVAL
    shown,              \* the pairs the pages of this run can yield
    row,                \* 1-based position of the for loop in `out`
    processed,          \* main's `processed`
    attempt,            \* main's `attempt`
    ok,                 \* main's `ok`
    consecutive_errors, \* main's `consecutive_errors`
    last_pair,          \* main's `last_pair`
    same_pair_streak,   \* main's `same_pair_streak`
    navs,               \* page.goto calls made for each row
    dumps,              \* rows dump_debug was called for
    pageAlive,          \* whether `page` belongs to an open context
    logins,             \* results of the ensure_logged_in calls of the run, in order
    restarts,           \* the restart_context calls of the run, in order
    url,                \* page.url as ensure_logged_in sees it
    polls,              \* iterations done of the polling loop of ensure_logged_in
    stateFile,          \* whether STATE_FILE exists
    wrote               \* whether this ensure_logged_in call wrote STATE_FILE

vars == <<pc, arg, ret, raw, prev, out, file, tmp, cfg, shown, row, processed,
          attempt, ok, consecutive_errors, last_pair, same_pair_streak, navs,
          dumps, pageAlive, logins, restarts, url, polls, stateFile, wrote>>

fnVars    == <<arg, ret>>
dataVars  == <<raw, prev, out>>
diskVars  == <<file, tmp>>
loopVars  == <<cfg, shown, row, processed, attempt, ok, consecutive_errors,
               last_pair, same_pair_streak, navs, dumps, pageAlive, logins,
               restarts>>
loginVars == <<url, polls, wrote>>

---------------------------------------------------------------------------
(* Values.  Python's None and pandas' NA are one value; an integer v is    *)
(* Some(v); Text is a cell that is neither empty nor a number.             *)

None    == [tag |-> "none"]
Some(v) == [tag |-> "int", val |-> v]
Text    == [tag |-> "text"]

IsInt(x) == x.tag = "int"

Pair(l, c) == [likes |-> l, comments |-> c]

\* Largest count a page shows in the pure-function specifications.
MaxCount == 2

OptInts(lo, hi) == {None} \cup {Some(v) : v \in lo..hi}

---------------------------------------------------------------------------
(* validate_metrics and extract_likes_comments.                            *)

\* validate_metrics with `comments >= likes` in place of line 235's
\* `comments > likes`: the variant C10 is tested against.
validate_metrics_ge(likes, comments) ==
    LET l1 == IF likes # None /\ likes.val < 0 THEN None ELSE likes
        c1 == IF comments # None /\ comments.val < 0 THEN None ELSE comments
        c2 == IF l1 # None /\ c1 # None /\ c1.val >= l1.val THEN None ELSE c1
    IN  Pair(l1, c2)

validate_metrics(likes, comments) ==
    LET l1 == IF likes # None /\ likes.val < 0 THEN None ELSE likes
        c1 == IF comments # None /\ comments.val < 0 THEN None ELSE comments
        c2 == IF l1 # None /\ c1 # None /\ c1.val > l1.val THEN None ELSE c1
    IN  Pair(l1, c2)

\* One pass of the body of `for _ in range(3)`: validate the read, then keep
\* the per-field maximum of the non-None values.
ReadOnce(best, read) ==
    LET v  == validate_metrics(read.likes, read.comments)
        bl == IF v.likes = None THEN best.likes
              ELSE IF best.likes = None THEN v.likes
              ELSE IF best.likes.val >= v.likes.val THEN best.likes ELSE v.likes
        bc == IF v.comments = None THEN best.comments
              ELSE IF best.comments = None THEN v.comments
              ELSE IF best.comments.val >= v.comments.val THEN best.comments
              ELSE v.comments
    IN  Pair(bl, bc)

\* Number of reads extract_likes_comments makes.
READS == 3

RECURSIVE ReadLoop(_, _, _)
ReadLoop(best, reads, k) ==
    IF k > Len(reads) THEN best
    ELSE ReadLoop(ReadOnce(best, reads[k]), reads, k + 1)

\* reads[k] is what _extract_like_from_root and _extract_comment_from_root
\* return on the k-th pass.
extract_likes_comments(reads) == ReadLoop(Pair(None, None), reads, 1)

\* What the two _extract_*_from_root functions can return: None, or an int
\* parsed from a string of digits.
RawReads == {Pair(l, c) : l \in OptInts(0, MaxCount), c \in OptInts(0, MaxCount)}

ReadTriples == [1..READS -> RawReads]

ExtractResults == {extract_likes_comments(rs) : rs \in ReadTriples}

---------------------------------------------------------------------------
(* The dataset and the resume merge of main().  A table is a sequence of   *)
(* rows; a column the file lacks is a column of None (the merge gives the  *)
(* same cells for both).                                                   *)

Url(s) == [tag |-> "url", id |-> s]

MkRow(u, l, c, d, f) ==
    [post_url |-> u, likes |-> l, comments |-> c, post_date |-> d,
     followers_now |-> f]

MergeCols == <<"likes", "comments", "post_date", "followers_now">>

File(rows) == [rows |-> rows, whole |-> TRUE, exists |-> TRUE]
NoFile     == [rows |-> <<>>, whole |-> TRUE, exists |-> FALSE]

\* FirstMatch with drop_duplicates keeping the last row of a key: the
\* variant C5 is tested against.
LastMatch(prevRows, u) ==
    LET hits == {j \in 1..Len(prevRows) : prevRows[j].post_url = u}
    IN  IF hits = {} THEN 0 ELSE CHOOSE j \in hits : \A k \in hits : k <= j

\* prev[["post_url", col]].drop_duplicates(subset="post_url") followed by the
\* left merge on post_url: the position in prevRows of the row the merge
\* joins to a row with key u (its first row with that key), or 0.  pandas
\* joins a missing key to a missing key, as equality of None does here.
FirstMatch(prevRows, u) ==
    LET hits == {j \in 1..Len(prevRows) : prevRows[j].post_url = u}
    IN  IF hits = {} THEN 0 ELSE CHOOSE j \in hits : \A k \in hits : j <= k

\* out[col].combine_first(out.pop(col + "_prev")): the left value unless it
\* is missing.
combine_first(mine, other) == IF mine # None THEN mine ELSE other

\* Lines 285-290 for one row and one column: the cell after the merge with
\* the prior output and combine_first.
MergedCell(r, prevRows, col) ==
    LET m  == FirstMatch(prevRows, r.post_url)
        pv == IF m = 0 THEN None ELSE prevRows[m][col]
    IN  combine_first(r[col], pv)

\* `for col in ("likes", "comments", "post_date", "followers_now")`: each
\* pass rewrites its own column and leaves post_url and the row order alone.
MergedRow(r, prevRows) ==
    [c \in DOMAIN r |->
        IF c \in {MergeCols[k] : k \in 1..Len(MergeCols)}
        THEN MergedCell(r, prevRows, c) ELSE r[c]]

\* Lines 279-298: `out` after the resume merge.  A prior file that is
\* missing, unreadable or without a post_url column leaves a copy of df_raw.
Merged(rawRows, prevFile) ==
    IF prevFile.exists
    THEN [i \in 1..Len(rawRows) |-> MergedRow(rawRows[i], prevFile.rows)]
    ELSE rawRows

\* to_numeric leaving every cell as it is: the variant C17 is tested
\* against.
to_numeric_keep(x) == x

\* pd.to_numeric(..., errors="coerce") on one cell.

to_numeric(x) == IF IsInt(x) THEN x ELSE None

\* Lines 300-310.
Coerced(rows) ==
    [i \in 1..Len(rows) |->
        [rows[i] EXCEPT !.likes = to_numeric(rows[i].likes),
                        !.comments = to_numeric(rows[i].comments)]]

Load(rawRows, prevFile) == Coerced(Merged(rawRows, prevFile))

---------------------------------------------------------------------------
(* Idle values of the variable groups.                                     *)

IdleFn    == arg = None /\ ret = None
IdleData  == raw = <<>> /\ prev = NoFile /\ out = <<>>
IdleDisk  == file = NoFile /\ tmp = NoFile
IdleLoop  == /\ cfg = None /\ shown = {}
             /\ row = 0 /\ processed = 0 /\ attempt = 0 /\ ok = FALSE
             /\ consecutive_errors = 0
             /\ last_pair = None /\ same_pair_streak = 0
             /\ navs = <<>> /\ dumps = {} /\ pageAlive = FALSE
             /\ logins = <<>> /\ restarts = <<>>
IdleLogin == url = None /\ polls = 0 /\ wrote = FALSE

---------------------------------------------------------------------------
(* SpecValidate: validate_metrics applied to every bounded input.          *)

ValidateInit ==
    /\ pc = "validate"
    /\ arg \in {Pair(l, c) : l \in OptInts(0 - MaxCount - 1, MaxCount + 1),
                             c \in OptInts(0 - MaxCount - 1, MaxCount + 1)}
    /\ ret = None
    /\ IdleData /\ IdleDisk /\ IdleLoop /\ IdleLogin /\ stateFile = FALSE

Validate ==
    /\ pc = "validate"
    /\ ret' = validate_metrics(arg.likes, arg.comments)
    /\ pc' = "validated"
    /\ UNCHANGED <<arg, dataVars, diskVars, loopVars, loginVars, stateFile>>

ValidateNext == Validate

SpecValidate == ValidateInit /\ [][ValidateNext]_vars

---------------------------------------------------------------------------
(* SpecExtract: extract_likes_comments applied to every triple of reads.   *)

ExtractInit ==
    /\ pc = "extract"
    /\ arg \in ReadTriples
    /\ ret = None
    /\ IdleData /\ IdleDisk /\ IdleLoop /\ IdleLogin /\ stateFile = FALSE

Extract ==
    /\ pc = "extract"
    /\ ret' = extract_likes_comments(arg)
    /\ pc' = "extracted"
    /\ UNCHANGED <<arg, dataVars, diskVars, loopVars, loginVars, stateFile>>

ExtractNext == Extract

SpecExtract == ExtractInit /\ [][ExtractNext]_vars

---------------------------------------------------------------------------
(* C10: validate_metrics equals its reference on every integer-or-None     *)
(* input of the range: a negative field becomes None; then, when both      *)
(* fields are left and comments > likes, comments becomes None; any other  *)
(* value passes through unchanged.                                         *)

NonNeg(x) == IF IsInt(x) /\ x.val >= 0 THEN x ELSE None

ValidateRef(likes, comments) ==
    CHOOSE r \in {Pair(l, c) : l \in {None, likes}, c \in {None, comments}} :
        /\ r.likes = NonNeg(likes)
        /\ r.comments = None <=>
              \/ NonNeg(comments) = None
              \/ IsInt(r.likes) /\ comments.val > r.likes.val

\* C10: the result of validate_metrics is the reference's, on every input of
\* the range and on the three examples of the specification (scaled).
C10_ValidateMatchesReference ==
    /\ pc = "validated" => ret = ValidateRef(arg.likes, arg.comments)
    /\ validate_metrics(Some(2), Some(3)) = Pair(Some(2), None)
    /\ validate_metrics(Some(0 - 1), Some(2)) = Pair(None, Some(2))
    /\ validate_metrics(Some(3), Some(1)) = Pair(Some(3), Some(1))

\* validate_metrics dropped a comment count larger than the like count.
C10_Witness ==
    /\ pc = "validated"
    /\ arg = Pair(Some(1), Some(2))
    /\ ret = Pair(Some(1), None)

---------------------------------------------------------------------------
(* C4: every pair extract_likes_comments returns has no negative field and *)
(* has comments <= likes when both are present.                            *)

Plausible(p) ==
    /\ IsInt(p.likes) => p.likes.val >= 0
    /\ IsInt(p.comments) => p.comments.val >= 0
    /\ IsInt(p.likes) /\ IsInt(p.comments) => p.comments.val <= p.likes.val

\* C4 as stated: the pair extract_likes_comments returns is plausible.
C4_Original == pc = "extracted" => Plausible(ret)

---------------------------------------------------------------------------
(* SpecLoad: lines 275-310 of main(), from every bounded input file and    *)
(* prior output file.                                                      *)

\* Rows of the input file and of the prior output file in SpecLoad.
LoadRows == 2

LoadUrls == {Url(1), Url(2)}

\* The cells of a row of either file: empty, filled, and two rows with a
\* cell that is not a number under likes or under comments.
LoadCells ==
    { MkRow(None, None,    None,    None,    None),
      MkRow(None, Some(1), Some(0), Some(2), Some(3)),
      MkRow(None, Text,    Some(0), None,    Some(3)),
      MkRow(None, None,    Text,    Some(2), None) }

LoadRowChoices == {[c EXCEPT !.post_url = u] : u \in LoadUrls, c \in LoadCells}

LoadTables == [1..LoadRows -> LoadRowChoices]

LoadInit ==
    /\ pc = "merge"
    /\ raw \in LoadTables
    /\ prev \in {NoFile} \cup {File(t) : t \in LoadTables}
    /\ out = <<>>
    /\ file = prev /\ tmp = NoFile
    /\ IdleFn /\ IdleLoop /\ IdleLogin /\ stateFile = FALSE

\* Lines 279-298.
MergePrev ==
    /\ pc = "merge"
    /\ out' = Merged(raw, prev)
    /\ pc' = "coerce"
    /\ UNCHANGED <<raw, prev, fnVars, diskVars, loopVars, loginVars, stateFile>>

\* Lines 300-310.
CoerceNumeric ==
    /\ pc = "coerce"
    /\ out' = Coerced(out)
    /\ pc' = "loaded"
    /\ UNCHANGED <<raw, prev, fnVars, diskVars, loopVars, loginVars, stateFile>>

LoadNext == MergePrev \/ CoerceNumeric

SpecLoad == LoadInit /\ [][LoadNext]_vars

---------------------------------------------------------------------------
(* C5: combine-first law of the load.                                      *)

NumericCols == {"likes", "comments"}
ColSet == {MergeCols[k] : k \in 1..Len(MergeCols)}

PrevHolds(i, col) ==
    \E j \in 1..Len(prev.rows) :
        /\ prev.rows[j].post_url = raw[i].post_url
        /\ prev.rows[j][col] # None

\* The rows of the prior output that are the first with the key of input
\* row i (one row, or none).
FirstPrev(i) ==
    {j \in 1..Len(prev.rows) :
        /\ prev.rows[j].post_url = raw[i].post_url
        /\ \A k \in 1..(j - 1) : prev.rows[k].post_url # raw[i].post_url}

\* C5 as stated: a value the prior output holds for the row's post_url is
\* never missing from the dataset after load.
C5_Original ==
    pc = "loaded" =>
        \A i \in 1..Len(raw) : \A col \in ColSet :
            prev.exists /\ PrevHolds(i, col) => out[i][col] # None

\* C5 as amended: when the FIRST row of the prior output with the row's
\* post_url holds a value under the column, the merged cell holds a value:
\* the input's own, if it has one, else that prior value.  After the numeric
\* coercion the cell is unchanged under post_date and followers_now, and
\* under likes and comments it is unchanged when that value is a number.
C5_CombineFirstOfFirstMatch ==
    \A i \in 1..Len(raw) : \A col \in ColSet : \A j \in FirstPrev(i) :
        LET kept == IF raw[i][col] # None THEN raw[i][col]
                    ELSE prev.rows[j][col]
        IN  prev.exists /\ prev.rows[j][col] # None =>
                /\ kept # None
                /\ pc = "coerce" => out[i][col] = kept
                /\ pc = "loaded" /\ (col \notin NumericCols \/ IsInt(kept))
                      => out[i][col] = kept

\* A row whose input cell is empty took a number from the prior output.
C5_Witness ==
    /\ pc = "loaded"
    /\ prev.exists
    /\ \E i \in 1..Len(raw) :
          /\ raw[i].likes = None
          /\ \E j \in FirstPrev(i) : prev.rows[j].likes = Some(1)
          /\ out[i].likes = Some(1)

---------------------------------------------------------------------------
(* SpecSave: atomic_save(out, OUTPUT) step by step.  DataFrame.to_csv      *)
(* opens its target (which truncates it), writes the rows and closes it;   *)
(* the process can be killed between any two steps.  `prev` is the file    *)
(* OUTPUT held before the call.                                            *)

\* tmp_path with the first write going to OUTPUT itself: the variant C6 is
\* tested against.
tmp_is_path == "path"

\* Line 64: the path of the first write ("tmp" is OUTPUT + ".tmp").
tmp_path == "tmp"

Opened == [rows |-> <<>>, whole |-> FALSE, exists |-> TRUE]

\* The files after one step of to_csv on `target`.
PutFile(target, content) ==
    IF target = "tmp" THEN tmp' = content /\ file' = file
    ELSE file' = content /\ tmp' = tmp

GetFile(target) == IF target = "tmp" THEN tmp ELSE file

ToCsvOpen(target) == PutFile(target, Opened)

ToCsvWrite(target) ==
    LET f == GetFile(target)
    IN  /\ Len(f.rows) < Len(out)
        /\ PutFile(target, [f EXCEPT !.rows = Append(@, out[Len(@) + 1])])

ToCsvClose(target) ==
    LET f == GetFile(target)
    IN  /\ Len(f.rows) = Len(out)
        /\ PutFile(target, [f EXCEPT !.whole = TRUE])

\* Rows of the dataset saved in SpecSave.
SaveRows == 2

SaveRowChoices ==
    { MkRow(Url(1), None, None, None, None),
      MkRow(Url(1), Some(1), None, None, None),
      MkRow(Url(1), Some(1), Some(0), None, None) }

SaveTables == [1..SaveRows -> SaveRowChoices]

SaveInit ==
    /\ pc = "save"
    /\ out \in SaveTables
    /\ prev \in {NoFile} \cup {File(t) : t \in SaveTables}
    /\ raw = <<>>
    /\ file = prev /\ tmp = NoFile
    /\ IdleFn /\ IdleLoop /\ IdleLogin /\ stateFile = FALSE

saveFrame == <<dataVars, fnVars, loopVars, loginVars, stateFile>>

\* Line 65: df.to_csv(tmp).
TmpOpen ==
    /\ pc = "save"
    /\ ToCsvOpen(tmp_path)
    /\ pc' = "tmp_writing"
    /\ UNCHANGED saveFrame

TmpWrite ==
    /\ pc = "tmp_writing"
    /\ ToCsvWrite(tmp_path)
    /\ UNCHANGED <<pc, saveFrame>>

TmpClose ==
    /\ pc = "tmp_writing"
    /\ ToCsvClose(tmp_path)
    /\ pc' = "replace"
    /\ UNCHANGED saveFrame

\* Line 67: os.replace(tmp, path) renames in one step.
Replace ==
    /\ pc = "replace"
    /\ file' = GetFile(tmp_path)
    /\ tmp' = NoFile
    /\ pc' = "saved"
    /\ UNCHANGED saveFrame

\* Line 68: os.replace raised.
ReplaceFails ==
    /\ pc = "replace"
    /\ pc' = "fallback"
    /\ UNCHANGED <<diskVars, saveFrame>>

\* Line 69: df.to_csv(path).
DirectOpen ==
    /\ pc = "fallback"
    /\ ToCsvOpen("path")
    /\ pc' = "direct_writing"
    /\ UNCHANGED saveFrame

DirectWrite ==
    /\ pc = "direct_writing"
    /\ ToCsvWrite("path")
    /\ UNCHANGED <<pc, saveFrame>>

DirectClose ==
    /\ pc = "direct_writing"
    /\ ToCsvClose("path")
    /\ pc' = "saved"
    /\ UNCHANGED saveFrame

\* The process is killed inside atomic_save.
Kill ==
    /\ pc \in {"save", "tmp_writing", "replace", "fallback", "direct_writing"}
    /\ pc' = IF pc = "direct_writing" THEN "killed_in_fallback" ELSE "killed"
    /\ UNCHANGED <<diskVars, saveFrame>>

SaveNext ==
    \/ TmpOpen \/ TmpWrite \/ TmpClose \/ Replace \/ ReplaceFails
    \/ DirectOpen \/ DirectWrite \/ DirectClose \/ Kill

SpecSave == SaveInit /\ [][SaveNext]_vars

---------------------------------------------------------------------------
(* C6: a kill at any step of atomic_save leaves OUTPUT whole.              *)

OldOrNew == file = prev \/ file = File(out)

\* C6 as stated: wherever the process is killed, the fallback included, the
\* file at OUTPUT is the whole previous output or the whole new output.
C6_Original == pc \in {"killed", "killed_in_fallback"} => OldOrNew

\* C6 as amended: the file at OUTPUT is the whole previous output or the
\* whole new output at every step of atomic_save, and so after a kill
\* there, except while the fallback's direct overwrite of OUTPUT is under
\* way; the only file a kill leaves partly written on the rename path is
\* the temporary one.
C6_AtomicUnlessFallback ==
    pc \notin {"direct_writing", "killed_in_fallback"} => OldOrNew /\ file.whole

\* Killed while the temporary file was half written, the previous output
\* still in place.
C6_Witness ==
    /\ pc = "killed"
    /\ prev.exists /\ file = prev /\ file # File(out)
    /\ tmp.exists /\ ~tmp.whole /\ Len(tmp.rows) = 1

---------------------------------------------------------------------------
(* SpecLogin: ensure_logged_in step by step.  What the code asks of        *)
(* page.url is which of three substrings it holds.                         *)

PageUrl(l, c, t) == [login |-> l, challenge |-> c, two_factor |-> t]

HomeUrl      == PageUrl(FALSE, FALSE, FALSE)  \* https://www.instagram.com/
LoginUrl     == PageUrl(TRUE, FALSE, FALSE)   \* .../accounts/login/
TwoFactorUrl == PageUrl(TRUE, FALSE, TRUE)    \* .../accounts/login/two_factor
ChallengeUrl == PageUrl(FALSE, TRUE, FALSE)   \* .../challenge/...

Urls == {HomeUrl, LoginUrl, TwoFactorUrl, ChallengeUrl}

\* Line 132: for _ in range(120).
POLL_LIMIT == 120

\* OnLoginPage with the test left out: the variant C8 is tested against.
OnLoginPage_never(u) == FALSE

\* Lines 112 and 140: "accounts/login" in page.url.

OnLoginPage(u) == u.login

\* Line 134.
NeedsOperator(u) == u.two_factor \/ u.challenge

\* Line 137.
LeftLogin(u) == ~u.login /\ ~u.challenge /\ ~u.two_factor

LoginInit ==
    /\ pc = "login_start"
    /\ url = None /\ polls = 0 /\ wrote = FALSE
    /\ stateFile \in BOOLEAN
    /\ IdleFn /\ IdleData /\ IdleDisk /\ IdleLoop

loginFrame == <<fnVars, dataVars, diskVars, loopVars>>

\* Lines 108-109: page.goto(home) returns with the page somewhere.
OpenHome ==
    /\ pc = "login_start"
    /\ url' \in Urls
    /\ pc' = "at_home"
    /\ UNCHANGED <<polls, wrote, stateFile, loginFrame>>

\* Lines 108, 120, 121: a goto or wait_for_selector raises (timeout).
PageRaises ==
    /\ pc \in {"login_start", "credentials"}
    /\ pc' = "login_error"
    /\ UNCHANGED <<loginVars, stateFile, loginFrame>>

\* Lines 112-115.
CheckHome ==
    /\ pc = "at_home"
    /\ IF ~OnLoginPage(url)
       THEN stateFile' = TRUE /\ wrote' = TRUE /\ pc' = "session_valid"
       ELSE pc' = "credentials" /\ UNCHANGED <<stateFile, wrote>>
    /\ UNCHANGED <<url, polls, loginFrame>>

\* Lines 117-129: credentials, the login form, then its submission or the
\* operator's manual login.
SubmitLogin ==
    /\ pc = "credentials"
    /\ url' = LoginUrl
    /\ polls' = 0
    /\ pc' = "polling"
    /\ UNCHANGED <<wrote, stateFile, loginFrame>>

\* Lines 132-138: one iteration.  u1 is page.url after the sleep; when it
\* asks for the operator, u2 is page.url once the operator has confirmed.
Poll ==
    /\ pc = "polling"
    /\ polls < POLL_LIMIT
    /\ \E u1 \in Urls : \E u2 \in Urls :
          /\ ~NeedsOperator(u1) => u2 = u1
          /\ url' = u2
          /\ polls' = polls + 1
          /\ pc' = IF LeftLogin(u2) \/ polls + 1 = POLL_LIMIT
                   THEN "after_poll" ELSE "polling"
    /\ UNCHANGED <<wrote, stateFile, loginFrame>>

\* Lines 140-144.
AfterPoll ==
    /\ pc = "after_poll"
    /\ IF OnLoginPage(url)
       THEN pc' = "login_failed" /\ UNCHANGED <<stateFile, wrote>>
       ELSE stateFile' = TRUE /\ wrote' = TRUE /\ pc' = "session_saved"
    /\ UNCHANGED <<url, polls, loginFrame>>

LoginNext ==
    OpenHome \/ PageRaises \/ CheckHome \/ SubmitLogin \/ Poll \/ AfterPoll

SpecLogin == LoginInit /\ [][LoginNext]_vars

---------------------------------------------------------------------------
(* C8: the session artifact is written only on a successful login.         *)

LoginRaised == pc \in {"login_failed", "login_error"}
LoginReturned == pc \in {"session_valid", "session_saved"}

\* C8 as stated: the artifact is written only with the page off the login,
\* challenge and two-factor pages, and a call that raises writes none.
C8_Original ==
    /\ wrote => LeftLogin(url)
    /\ LoginRaised => ~wrote

\* C8 as amended: the artifact is written exactly by the calls that return,
\* and then the page URL is not a login URL (it may still be a challenge
\* page); a call that ends still on the login page has used up the polling
\* window, raises and writes nothing.
C8_ArtifactOnlyOffLoginPage ==
    /\ wrote <=> LoginReturned
    /\ wrote => ~url.login
    /\ LoginRaised => ~wrote
    /\ pc = "login_failed" => url.login /\ polls = POLL_LIMIT
    /\ pc = "after_poll" /\ url.login => polls = POLL_LIMIT

\* The polling window ran out on a challenge page and the artifact was
\* written.
C8_Witness ==
    /\ pc = "session_saved" /\ wrote /\ stateFile
    /\ url = ChallengeUrl /\ polls = POLL_LIMIT

---------------------------------------------------------------------------
(* The run loop of main(), lines 312-465, and the exit of lines 468-473.   *)
(* A call of ensure_logged_in, restart_context or atomic_save is one step  *)
(* here, with the results SpecLogin and SpecSave show them to have.        *)

\* ensure_logged_in returns (session valid, artifact written) or raises.
LoginResults == {"session_valid", "login_failed"}

\* StartupResult with the exception swallowed: the variant C9 is tested
\* against.
StartupResult_swallow(r) == "loop"

\* Line 343 is outside any try: what the run does next.

StartupResult(r) == IF r = "session_valid" THEN "loop" ELSE "crashed"

\* AlreadyFilled with the resume skip left out: the variant C1 is tested
\* against.
AlreadyFilled_never(r) == FALSE

\* Line 381: pd.notna(likes) and pd.notna(comments).

AlreadyFilled(r) == r.likes # None /\ r.comments # None

\* Skipped without the start offset: the variant C16 is tested against.
Skipped_nostart(i) == out[i].post_url = None \/ AlreadyFilled(out[i])

\* Lines 375-382: the rows the for loop passes over.

Skipped(i) ==
    \/ out[i].post_url = None
    \/ i < cfg.START_ROW
    \/ AlreadyFilled(out[i])

\* Line 409: same_pair_streak >= 5.
GUARD_STREAK == 5

\* NextStreak starting over once the guard has tripped: the variant C19 is
\* tested against.
NextStreak_rearm(pair) ==
    IF /\ pair = last_pair /\ (pair.likes # None \/ pair.comments # None)
       /\ same_pair_streak < GUARD_STREAK
    THEN same_pair_streak + 1 ELSE 0

\* Lines 402-407.

NextStreak(pair) ==
    IF pair = last_pair /\ (pair.likes # None \/ pair.comments # None)
    THEN same_pair_streak + 1 ELSE 0

\* Lines 345-372: restart_context returns True ("restarted"), or False after
\* ensure_logged_in raised in the new context ("login_failed") or after the
\* launch or the new context raised ("launch_failed").
RestartResults == {"restarted", "login_failed", "launch_failed"}

Call(force, result) == [force |-> force, result |-> result]

\* Recoveries going straight to the relaunch: the variant C14 is tested
\* against.
Recoveries_relaunch == {<<Call(TRUE, r)>> : r \in RestartResults}

\* Lines 432-433: restart_context(False), and restart_context(True) if that
\* returned False.

Recoveries ==
    {<<Call(FALSE, "restarted")>>} \cup
    {<<Call(FALSE, r1), Call(TRUE, r2)>> :
        r1 \in RestartResults \ {"restarted"}, r2 \in RestartResults}

RECURSIVE LoginsOf(_)
LoginsOf(calls) ==
    IF calls = <<>> THEN <<>>
    ELSE LET r == Head(calls).result
         IN  (IF r = "restarted" THEN <<"session_valid">>
              ELSE IF r = "login_failed" THEN <<"login_failed">>
              ELSE <<>>) \o LoginsOf(Tail(calls))

\* atomic_save(out, OUTPUT) as a whole: OUTPUT holds the dataset; the
\* temporary file is gone, or left behind by the fallback.
AtomicSave ==
    /\ file' = File(out)
    /\ \E renamed \in BOOLEAN : tmp' = IF renamed THEN NoFile ELSE File(out)

\* SetMetrics rebuilding the whole row around the two metrics: the variant
\* C11 is tested against.
SetMetrics_row(rows, i, l, c) ==
    [rows EXCEPT ![i] = MkRow(@.post_url, l, c, None, None)]

\* Lines 436-437 and 439-440: out.loc[row_idx, "likes"] and
\* out.loc[row_idx, "comments"] are assigned; no other cell is.

SetMetrics(rows, i, l, c) ==
    [rows EXCEPT ![i] = [@ EXCEPT !.likes = l, !.comments = c]]

constVars == <<fnVars, loginVars, raw, prev, cfg, shown>>

\* Lines 319-343: launch, context, page, ensure_logged_in.
Startup ==
    /\ pc = "startup"
    /\ \E r \in LoginResults :
          /\ logins' = Append(logins, r)
          /\ stateFile' = (stateFile \/ r = "session_valid")
          /\ pc' = StartupResult(r)
    /\ pageAlive' = TRUE
    /\ row' = 1
    /\ UNCHANGED <<constVars, out, diskVars, processed, attempt, ok,
                   consecutive_errors, last_pair, same_pair_streak, navs,
                   dumps, restarts>>

\* NextRow staying on the row: the variant C20 is tested against.
NextRow_stay == row

\* Line 375: the for loop takes the next row.

NextRow == row + 1

\* Line 375: the for loop is exhausted.
LoopEnd ==
    /\ pc = "loop"
    /\ row > Len(out)
    /\ pc' = "final_save"
    /\ UNCHANGED <<constVars, out, diskVars, row, processed, attempt, ok,
                   consecutive_errors, last_pair, same_pair_streak, navs,
                   dumps, pageAlive, logins, restarts, stateFile>>

\* Lines 375-382: dropna and the two `continue`s.
SkipRow ==
    /\ pc = "loop"
    /\ row <= Len(out)
    /\ Skipped(row)
    /\ row' = NextRow
    /\ UNCHANGED <<constVars, pc, out, diskVars, processed, attempt, ok,
                   consecutive_errors, last_pair, same_pair_streak, navs,
                   dumps, pageAlive, logins, restarts, stateFile>>

\* Lines 384-392.
BeginRow ==
    /\ pc = "loop"
    /\ row <= Len(out)
    /\ ~Skipped(row)
    /\ processed' = processed + 1
    /\ IF cfg.TEST_LIMIT # None /\ processed + 1 > cfg.TEST_LIMIT.val
       THEN pc' = "final_save" /\ UNCHANGED <<attempt, ok>>
       ELSE pc' = "attempt" /\ attempt' = 1 /\ ok' = FALSE
    /\ UNCHANGED <<constVars, out, diskVars, row, consecutive_errors,
                   last_pair, same_pair_streak, navs, dumps, pageAlive,
                   logins, restarts, stateFile>>

\* ErrorsAfterOk with the counter left as it was: the variant C18 is tested
\* against.
ErrorsAfterOk_kept == consecutive_errors

\* Line 415: consecutive_errors = 0.

ErrorsAfterOk == 0

\* Lines 395-416 and 438-445: an attempt that does not raise, and the write
\* of its row.
AttemptOk ==
    /\ pc = "attempt"
    /\ pageAlive
    /\ \E pair \in shown :
          LET streak  == NextStreak(pair)
              tripped == streak >= GUARD_STREAK
              likes    == IF tripped THEN None ELSE pair.likes
              comments == IF tripped THEN None ELSE pair.comments
          IN  /\ same_pair_streak' = streak
              /\ last_pair' = pair
              /\ out' = SetMetrics(out, row, likes, comments)
              /\ dumps' = IF tripped \/ likes = None \/ comments = None
                          THEN dumps \cup {row} ELSE dumps
    /\ navs' = [navs EXCEPT ![row] = @ + 1]
    /\ ok' = TRUE
    /\ consecutive_errors' = ErrorsAfterOk
    /\ pc' = "checkpoint"
    /\ UNCHANGED <<constVars, diskVars, row, processed, attempt, pageAlive,
                   logins, restarts, stateFile>>

\* MoreAttempts with one attempt more than the limit: the variant C13 is
\* tested against.
MoreAttempts_extra == attempt < cfg.RETRY_PER_POST + 1

\* Line 394: `for attempt in range(1, RETRY_PER_POST + 1)` has a value left.

MoreAttempts == attempt < cfg.RETRY_PER_POST

\* Lines 418-423: an attempt that raises, with another one left.
AttemptRetry ==
    /\ pc = "attempt"
    /\ MoreAttempts
    /\ navs' = [navs EXCEPT ![row] = @ + 1]
    /\ attempt' = attempt + 1
    /\ UNCHANGED <<constVars, pc, out, diskVars, row, processed, ok,
                   consecutive_errors, last_pair, same_pair_streak, dumps,
                   pageAlive, logins, restarts, stateFile>>

\* Lines 418-437: the last attempt raises; the row has failed.
RowFails ==
    /\ pc = "attempt"
    /\ ~MoreAttempts
    /\ navs' = [navs EXCEPT ![row] = @ + 1]
    /\ dumps' = dumps \cup {row}
    /\ IF consecutive_errors + 1 >= cfg.MAX_CONSECUTIVE_ERRORS
       THEN /\ \E calls \in Recoveries :
                  /\ restarts' = restarts \o calls
                  /\ logins' = logins \o LoginsOf(calls)
                  /\ pageAlive' = (calls[Len(calls)].result # "launch_failed")
                  /\ stateFile' =
                        (stateFile \/ calls[Len(calls)].result = "restarted")
            /\ consecutive_errors' = 0
       ELSE /\ consecutive_errors' = consecutive_errors + 1
            /\ UNCHANGED <<restarts, logins, pageAlive, stateFile>>
    /\ out' = SetMetrics(out, row, None, None)
    /\ pc' = "checkpoint"
    /\ UNCHANGED <<constVars, diskVars, row, processed, attempt, ok,
                   last_pair, same_pair_streak>>

\* SaveDue one row late: the variant C15 is tested against.
SaveDue_late == processed % cfg.SAVE_INTERVAL = 1 % cfg.SAVE_INTERVAL

\* Line 447: processed % SAVE_INTERVAL == 0.

SaveDue == processed % cfg.SAVE_INTERVAL = 0

\* Lines 447-452, and the step of the for loop.
Checkpoint ==
    /\ pc = "checkpoint"
    /\ IF SaveDue
       THEN AtomicSave ELSE UNCHANGED diskVars
    /\ row' = NextRow
    /\ pc' = "loop"
    /\ UNCHANGED <<constVars, out, processed, attempt, ok,
                   consecutive_errors, last_pair, same_pair_streak, navs,
                   dumps, pageAlive, logins, restarts, stateFile>>

\* Lines 454-465.
FinalSave ==
    /\ pc = "final_save"
    /\ AtomicSave
    /\ pageAlive' = FALSE
    /\ pc' = "done"
    /\ UNCHANGED <<constVars, out, row, processed, attempt, ok,
                   consecutive_errors, last_pair, same_pair_streak, navs,
                   dumps, logins, restarts, stateFile>>

\* Lines 468-473: KeyboardInterrupt is no Exception, so no handler of main()
\* catches it; it unwinds main() and the process logs and exits.
Interrupt ==
    /\ pc \in {"startup", "loop", "attempt", "checkpoint", "final_save"}
    /\ pc' = "interrupted"
    /\ pageAlive' = FALSE
    /\ UNCHANGED <<constVars, out, diskVars, row, processed, attempt, ok,
                   consecutive_errors, last_pair, same_pair_streak, navs,
                   dumps, logins, restarts, stateFile>>

Next ==
    \/ Startup \/ LoopEnd \/ SkipRow \/ BeginRow
    \/ AttemptOk \/ AttemptRetry \/ RowFails
    \/ Checkpoint \/ FinalSave \/ Interrupt

---------------------------------------------------------------------------
(* Spec: a resumed run.  The input has no metric columns; the prior output *)
(* holds, for each row, nothing, likes alone, or both metrics.             *)

\* Rows of the dataset in Spec.
NRows == 2

RowKinds == {"nourl", "fresh", "partial", "complete"}

KeyOf(kinds, i) == IF kinds[i] = "nourl" THEN None ELSE Url(i)

InputOf(kinds) ==
    [i \in 1..Len(kinds) |-> MkRow(KeyOf(kinds, i), None, None, None, None)]

StoredOf(kinds) ==
    [i \in 1..Len(kinds) |->
        MkRow(KeyOf(kinds, i),
              IF kinds[i] \in {"partial", "complete"} THEN Some(1) ELSE None,
              IF kinds[i] = "complete" THEN Some(0) ELSE None,
              None, None)]

RunConfigs ==
    [START_ROW : {1, 2}, TEST_LIMIT : {None, Some(1)}, RETRY_PER_POST : {2},
     MAX_CONSECUTIVE_ERRORS : {2}, SAVE_INTERVAL : {1, 2}]

\* What the pages of a run show: nothing, likes alone, both metrics, and a
\* pair with more comments than likes.
RunPairs ==
    ExtractResults \cap
        { Pair(None, None), Pair(Some(1), None), Pair(Some(1), Some(0)),
          Pair(Some(0), Some(1)) }

LoopStart ==
    /\ pc = "startup"
    /\ row = 0 /\ processed = 0 /\ attempt = 0 /\ ok = FALSE
    /\ consecutive_errors = 0
    /\ last_pair = None /\ same_pair_streak = 0
    /\ navs = [i \in 1..Len(out) |-> 0]
    /\ dumps = {} /\ pageAlive = FALSE
    /\ logins = <<>> /\ restarts = <<>>
    /\ stateFile = FALSE
    /\ IdleFn /\ IdleLogin

Init ==
    /\ \E kinds \in [1..NRows -> RowKinds] :
          /\ raw = InputOf(kinds)
          /\ prev = File(StoredOf(kinds))
    /\ out = Load(raw, prev)
    /\ file = prev /\ tmp = NoFile
    /\ cfg \in RunConfigs
    /\ shown = RunPairs
    /\ LoopStart

Spec == Init /\ [][Next]_vars

\* `out` as the load left it.
Loaded == Load(raw, prev)

---------------------------------------------------------------------------
(* SpecGuard: a first run (no prior output) under the default              *)
(* configuration on a dataset long enough for the repeated-pair guard and  *)
(* for MAX_CONSECUTIVE_ERRORS = 5; at most one row comes already filled.   *)

\* Rows of the dataset in SpecGuard.
GuardRows == 6

DefaultConfig ==
    [START_ROW |-> 1, TEST_LIMIT |-> None, RETRY_PER_POST |-> 2,
     MAX_CONSECUTIVE_ERRORS |-> 5, SAVE_INTERVAL |-> 1]

GuardPairs == ExtractResults \cap {Pair(Some(1), Some(0)), Pair(None, None)}

GuardInit ==
    /\ \E filled \in 0..GuardRows :
          raw = [i \in 1..GuardRows |->
                    IF i = filled
                    THEN MkRow(Url(i), Some(1), Some(0), None, None)
                    ELSE MkRow(Url(i), None, None, None, None)]
    /\ prev = NoFile
    /\ out = Load(raw, prev)
    /\ file = prev /\ tmp = NoFile
    /\ cfg = DefaultConfig
    /\ shown = GuardPairs
    /\ LoopStart

SpecGuard == GuardInit /\ [][Next]_vars

---------------------------------------------------------------------------
(* C1: rows that hold both metrics after load are never fetched and keep   *)
(* their values, in memory and in every file written to OUTPUT.            *)

Filled(r) == r.likes # None /\ r.comments # None

SameMetrics(r, s) == r.likes = s.likes /\ r.comments = s.comments

\* C1: a row filled at load has no navigation and its loaded metrics, in
\* `out` and in the file at OUTPUT, in every state of the run.
C1_SkipIfComplete ==
    LET L == Loaded
    IN  \A i \in 1..Len(out) :
            Filled(L[i]) =>
                /\ navs[i] = 0
                /\ SameMetrics(out[i], L[i])
                /\ file.exists => SameMetrics(file.rows[i], L[i])

\* A finished run that fetched and changed some row and left a filled one.
C1_Witness ==
    LET L == Loaded
    IN  /\ pc = "done"
        /\ file = File(out)
        /\ \E i \in 1..Len(out) : Filled(L[i]) /\ navs[i] = 0
        /\ \E j \in 1..Len(out) : navs[j] > 0 /\ ~SameMetrics(out[j], L[j])

---------------------------------------------------------------------------
(* C2: the repeated-pair guard trips on the 5th consecutive row with the   *)
(* same pair: that row is stored as absent/absent and dump_debug is called *)
(* for it.  Stated for rows k-4..k fetched one after the other, rows       *)
(* k-4..k-1 stored with the pair that row k has just yielded.              *)

\* C2 as stated: the 5th row of such a run is stored absent/absent and
\* dumped.
C2_Original ==
    \A k \in 5..Len(out) :
        ( /\ pc = "checkpoint" /\ row = k /\ ok
          /\ last_pair # Pair(None, None)
          /\ \A j \in (k - 4)..(k - 1) :
                navs[j] > 0 /\ Pair(out[j].likes, out[j].comments) = last_pair )
        => /\ out[k].likes = None /\ out[k].comments = None
           /\ k \in dumps

---------------------------------------------------------------------------
(* C3: when the run ends, by the end of the loop or by KeyboardInterrupt,  *)
(* OUTPUT holds the in-memory dataset.                                     *)

\* C3 as stated: a run that has ended either way has saved its dataset.
C3_Original == pc \in {"done", "interrupted"} => file = File(out)

---------------------------------------------------------------------------
(* C7: the write of a failed row sets both metrics absent and replaces no  *)
(* value an earlier run had stored for the row.                            *)

\* C7 as stated: after the failure write the row is absent/absent and held
\* no metric at load.
C7_Original ==
    pc = "checkpoint" /\ ~ok =>
        LET was == Loaded[row]
        IN  /\ out[row].likes = None /\ out[row].comments = None
            /\ was.likes = None /\ was.comments = None

---------------------------------------------------------------------------
(* C9: a session establishment that ends in login-failed stops the run.    *)

\* C9 as stated: at startup and in recovery alike.
C9_Original ==
    (\E k \in 1..Len(logins) : logins[k] = "login_failed") => pc = "crashed"

\* C9 as amended: login-failed stops the run at startup, before any row is
\* fetched or written; in failure-escalation recovery it is caught, makes
\* restart_context return False, and never stops the run.
C9_LoginFailureStopsAtStartupOnly ==
    /\ (logins # <<>> /\ logins[1] = "login_failed") =>
          /\ pc = "crashed"
          /\ processed = 0 /\ out = Loaded /\ file = prev
          /\ \A i \in 1..Len(navs) : navs[i] = 0
    /\ pc = "crashed" => logins = <<"login_failed">>
    /\ \A k \in 2..Len(logins) :
          logins[k] = "login_failed" =>
              /\ pc \in {"checkpoint", "loop", "attempt", "final_save",
                         "done", "interrupted"}
              /\ \E n \in 1..Len(restarts) : restarts[n].result = "login_failed"

\* Both recovery calls ended in login-failed and the run went on to its
\* final save.
C9_Witness ==
    /\ pc = "done"
    /\ file = File(out)
    /\ Len(logins) = 3 /\ logins[2] = "login_failed" /\ logins[3] = "login_failed"

---------------------------------------------------------------------------
(* SpecResume: the run loop on a dataset loaded against a prior output     *)
(* whose rows need not line up with the input's: the prior file can be     *)
(* missing, reversed, carry every key twice, start with a row of an        *)
(* unknown key, or lack the last row.  Input rows can share a post_url or  *)
(* have none, and carry a post_date of their own.                          *)

\* Rows of the input in SpecResume.
ResumeRows == 2

ResumeKinds == {"nourl", "fresh", "complete", "dup"}

ResumeKey(kinds, i) ==
    IF kinds[i] = "nourl" THEN None
    ELSE IF kinds[i] = "dup" THEN Url(1) ELSE Url(i)

ResumeInput(kinds) ==
    [i \in 1..Len(kinds) |->
        MkRow(ResumeKey(kinds, i), None, None, Some(i), None)]

ResumeStored(kinds) ==
    [i \in 1..Len(kinds) |->
        MkRow(ResumeKey(kinds, i),
              IF kinds[i] \in {"complete", "dup"} THEN Some(1) ELSE None,
              IF kinds[i] = "complete" THEN Some(0) ELSE None,
              None, Some(i))]

Reversed(s) == [i \in 1..Len(s) |-> s[Len(s) + 1 - i]]

Blanked(s) == [i \in 1..Len(s) |-> MkRow(s[i].post_url, None, None, None, None)]

\* A row of a post the input does not list.
StaleRow == MkRow(Url(0), Some(1), Some(1), None, None)

PriorLayouts(s) ==
    { NoFile, File(s), File(Reversed(s)), File(s \o Blanked(s)),
      File(<<StaleRow>> \o s), File(SubSeq(s, 1, Len(s) - 1)) }

ResumeConfig ==
    [START_ROW |-> 1, TEST_LIMIT |-> None, RETRY_PER_POST |-> 2,
     MAX_CONSECUTIVE_ERRORS |-> 5, SAVE_INTERVAL |-> 2]

ResumePairs == ExtractResults \cap {Pair(Some(1), Some(0)), Pair(None, None)}

ResumeInit ==
    /\ \E kinds \in [1..ResumeRows -> ResumeKinds] :
          /\ raw = ResumeInput(kinds)
          /\ prev \in PriorLayouts(ResumeStored(kinds))
    /\ out = Load(raw, prev)
    /\ file = prev /\ tmp = NoFile
    /\ cfg = ResumeConfig
    /\ shown = ResumePairs
    /\ LoopStart

SpecResume == ResumeInit /\ [][Next]_vars

---------------------------------------------------------------------------
(* C11: the dataset is index-stable, and the run loop writes only the two  *)
(* metric cells of the rows it processed.                                  *)

\* The rows of t are the input's rows, one for one and in order, and differ
\* from the loaded dataset L in no cell but likes and comments.
IndexStable(t, L) ==
    /\ Len(t) = Len(raw)
    /\ \A i \in 1..Len(raw) :
          /\ t[i].post_url = raw[i].post_url
          /\ t[i].post_date = L[i].post_date
          /\ t[i].followers_now = L[i].followers_now

\* C11: in every state of the run `out` has one row per input row, in input
\* order and with the input's post_url, whatever keys the prior output held;
\* it differs from the loaded dataset only in the likes and comments of rows
\* that were fetched; every file the run writes to OUTPUT is such a dataset,
\* and the finished run has saved `out`.
C11_IndexStable ==
    LET L == Loaded
    IN  /\ IndexStable(out, L)
        /\ \A i \in 1..Len(out) : navs[i] = 0 => out[i] = L[i]
        /\ file # prev => IndexStable(file.rows, L)
        /\ pc = "done" => file = File(out)

\* A finished run over a prior output that held every key of the input
\* twice: one row was fetched and changed, another kept as loaded, and the
\* saved file has the input's rows, not the prior output's.
C11_Witness ==
    LET L == Loaded
    IN  /\ pc = "done" /\ file = File(out) /\ file # prev
        /\ prev.exists /\ Len(prev.rows) = 2 * Len(raw)
        /\ \E j \in 1..Len(raw) :
              /\ prev.rows[j].post_url # None
              /\ prev.rows[j].post_url = prev.rows[Len(raw) + j].post_url
        /\ \E i \in 1..Len(out) : navs[i] > 0 /\ out[i] # L[i]
        /\ \E i \in 1..Len(out) : navs[i] = 0 /\ out[i] = L[i]

---------------------------------------------------------------------------
(* to_int, lines 85-89.  A string is Str(s), s the sequence of its         *)
(* characters.                                                             *)

Str(s) == [tag |-> "str", chars |-> s]

Digits == <<"0", "1", "2", "3", "4", "5", "6", "7", "8", "9">>

IsDigit(ch) == \E d \in 1..Len(Digits) : Digits[d] = ch

DigitVal(ch) == (CHOOSE d \in 1..Len(Digits) : Digits[d] = ch) - 1

IsSpace(ch) == ch = " "

RECURSIVE lstrip(_)
lstrip(s) == IF s # <<>> /\ IsSpace(Head(s)) THEN lstrip(Tail(s)) ELSE s

RECURSIVE rstrip(_)
rstrip(s) ==
    IF s # <<>> /\ IsSpace(s[Len(s)]) THEN rstrip(SubSeq(s, 1, Len(s) - 1))
    ELSE s

\* str.strip() with the right end left alone: the variant C12 is tested
\* against.
strip_left(s) == lstrip(s)

\* Line 88: str.strip().

strip(s) == rstrip(lstrip(s))

\* Line 88: .replace(",", "").
RECURSIVE remove_commas(_)
remove_commas(s) ==
    IF s = <<>> THEN <<>>
    ELSE IF Head(s) = "," THEN remove_commas(Tail(s))
    ELSE <<Head(s)>> \o remove_commas(Tail(s))

\* Line 89: re.fullmatch(r"\d+", s).
fullmatch_digits(s) == s # <<>> /\ \A k \in 1..Len(s) : IsDigit(s[k])

\* Line 89: int(s) on a string of digits.
RECURSIVE int(_)
int(s) ==
    IF s = <<>> THEN 0
    ELSE 10 * int(SubSeq(s, 1, Len(s) - 1)) + DigitVal(s[Len(s)])

to_int(text) ==
    IF text = None THEN None
    ELSE LET s == remove_commas(strip(text.chars))
         IN  IF fullmatch_digits(s) THEN Some(int(s)) ELSE None

---------------------------------------------------------------------------
(* SpecToInt: to_int applied to None and to every string of bounded length *)
(* over digits, the comma, the space, a letter and the minus sign.         *)

\* Longest string given to to_int.
MaxLen == 4

Alphabet == {"0", "1", "7", ",", " ", "a", "-"}

Strings == UNION {[1..n -> Alphabet] : n \in 0..MaxLen}

ToIntInit ==
    /\ pc = "to_int"
    /\ arg \in {None} \cup {Str(s) : s \in Strings}
    /\ ret = None
    /\ IdleData /\ IdleDisk /\ IdleLoop /\ IdleLogin /\ stateFile = FALSE

ToInt ==
    /\ pc = "to_int"
    /\ ret' = to_int(arg)
    /\ pc' = "parsed"
    /\ UNCHANGED <<arg, dataVars, diskVars, loopVars, loginVars, stateFile>>

ToIntNext == ToInt

SpecToInt == ToIntInit /\ [][ToIntNext]_vars

---------------------------------------------------------------------------
(* C12: to_int against a reference that works on positions: the token is   *)
(* what lies between the first and the last character that is not a space, *)
(* less its commas; its value is the sum of its digits times their powers  *)
(* of ten.                                                                 *)

NotComma(ch) == ch # ","

Token(s) ==
    LET inked == {k \in 1..Len(s) : ~IsSpace(s[k])}
        first == CHOOSE k \in inked : \A j \in inked : k <= j
        last  == CHOOSE k \in inked : \A j \in inked : j <= k
    IN  IF inked = {} THEN <<>>
        ELSE SelectSeq(SubSeq(s, first, last), NotComma)

RECURSIVE Pow10(_)
Pow10(n) == IF n = 0 THEN 1 ELSE 10 * Pow10(n - 1)

RECURSIVE DecimalFrom(_, _)
DecimalFrom(t, k) ==
    IF k > Len(t) THEN 0
    ELSE DigitVal(t[k]) * Pow10(Len(t) - k) + DecimalFrom(t, k + 1)

\* C12: to_int(None) is None; for a string, the result is the decimal value
\* of the token when the token is a non-empty string of digits and None
\* when it is not; and the examples of the specification hold.
C12_ToIntMatchesReference ==
    /\ pc = "parsed" /\ arg = None => ret = None
    /\ pc = "parsed" /\ arg # None =>
          LET t == Token(arg.chars)
              digits == t # <<>> /\ \A k \in 1..Len(t) : IsDigit(t[k])
          IN  /\ digits => ret = Some(DecimalFrom(t, 1))
              /\ ~digits => ret = None
    /\ to_int(Str(<<"1", ",", "2", "3", "4">>)) = Some(1234)
    /\ to_int(Str(<<"a", "b", "c">>)) = None
    /\ to_int(None) = None

\* A number with a thousands separator and a trailing space was parsed.
C12_Witness ==
    /\ pc = "parsed"
    /\ arg = Str(<<"1", ",", "0", " ">>)
    /\ ret = Some(10)

---------------------------------------------------------------------------
(* C13: the per-row retry state machine.                                   *)

\* The attempts of the current row that raised.
Raised == navs[row] - (IF ok THEN 1 ELSE 0)

\* The row whose attempts have just ended carries the marks of a failed
\* row: both metrics absent and a debug snapshot.
MarkedFailed ==
    /\ out[row].likes = None /\ out[row].comments = None
    /\ row \in dumps

\* What a step of the run does to the attempts of a row.
RetryStep ==
    /\ \A i \in 1..Len(navs) :
          /\ navs'[i] \in {navs[i], navs[i] + 1}
          /\ navs'[i] # navs[i] => pc = "attempt" /\ i = row
    /\ pc = "attempt" /\ pc' = "attempt" => navs'[row] = navs[row] + 1
    /\ pc = "attempt" /\ pc' = "checkpoint" =>
          /\ navs'[row] = attempt
          /\ ok' => consecutive_errors' = 0
          /\ ~ok' =>
                /\ attempt = cfg.RETRY_PER_POST
                /\ IF consecutive_errors + 1 >= cfg.MAX_CONSECUTIVE_ERRORS
                   THEN consecutive_errors' = 0 /\ Len(restarts') > Len(restarts)
                   ELSE consecutive_errors' = consecutive_errors + 1
    /\ pc = "checkpoint" => navs' = navs /\ ok' = ok

\* C13: a row gets at most RETRY_PER_POST attempts; the attempts stop at the
\* first that does not raise; the row is marked failed (metrics absent,
\* snapshot, counter incremented) exactly when all RETRY_PER_POST attempts
\* raised, and a row one of whose attempts returned is never failed.
C13_RetryStateMachine ==
    /\ [](\A i \in 1..Len(navs) : navs[i] <= cfg.RETRY_PER_POST)
    /\ [](pc = "checkpoint" =>
             /\ Raised = cfg.RETRY_PER_POST <=> ~ok
             /\ ~ok => MarkedFailed
             /\ ok => Raised < cfg.RETRY_PER_POST /\ navs[row] = Raised + 1)
    /\ [][RetryStep]_vars

\* A row failed after RETRY_PER_POST raising attempts and the next row
\* succeeded on its second attempt.
C13_Witness ==
    /\ pc = "checkpoint" /\ ok /\ row = 2
    /\ navs[1] = cfg.RETRY_PER_POST /\ 1 \in dumps
    /\ out[1].likes = None /\ out[1].comments = None
    /\ navs[2] = 2 /\ out[2].likes # None
    /\ consecutive_errors = 0

---------------------------------------------------------------------------
(* SpecEscalate: a first run with a recovery threshold of 1 or 2, so that  *)
(* a run escalates more than once; the second row may come already filled. *)

\* Rows of the dataset in SpecEscalate.
EscalateRows == 4

EscalateConfigs ==
    {[DefaultConfig EXCEPT !.MAX_CONSECUTIVE_ERRORS = m] : m \in {1, 2}}

EscalatePairs == ExtractResults \cap {Pair(Some(1), Some(0))}

EscalateInit ==
    /\ \E filled \in {0, 2} :
          raw = [i \in 1..EscalateRows |->
                    IF i = filled
                    THEN MkRow(Url(i), Some(1), Some(0), None, None)
                    ELSE MkRow(Url(i), None, None, None, None)]
    /\ prev = NoFile
    /\ out = Load(raw, prev)
    /\ file = prev /\ tmp = NoFile
    /\ cfg \in EscalateConfigs
    /\ shown = EscalatePairs
    /\ LoopStart

SpecEscalate == EscalateInit /\ [][Next]_vars

---------------------------------------------------------------------------
(* C14: failure escalation.                                                *)

\* The restart_context calls a step added.
NewCalls == SubSeq(restarts', Len(restarts) + 1, Len(restarts'))

\* One recovery: the context is recreated first; the browser is relaunched
\* if and only if that returned False.
OneRecovery(calls) ==
    /\ Len(calls) \in {1, 2}
    /\ calls[1].force = FALSE
    /\ Len(calls) = 2 <=> calls[1].result # "restarted"
    /\ Len(calls) = 2 => calls[2].force = TRUE

\* What a step does to the counter: a failed row adds one, and when that
\* reaches the threshold a recovery runs and the counter restarts from 0; a
\* successful row sets it to 0; no other step touches it or recovers.
EscalationStep ==
    /\ SubSeq(restarts', 1, Len(restarts)) = restarts
    /\ IF pc = "attempt" /\ pc' = "checkpoint" /\ ~ok'
       THEN IF consecutive_errors + 1 = cfg.MAX_CONSECUTIVE_ERRORS
            THEN OneRecovery(NewCalls) /\ consecutive_errors' = 0
            ELSE NewCalls = <<>> /\ consecutive_errors' = consecutive_errors + 1
       ELSE IF pc = "attempt" /\ pc' = "checkpoint" /\ ok'
       THEN NewCalls = <<>> /\ consecutive_errors' = 0
       ELSE NewCalls = <<>> /\ consecutive_errors' = consecutive_errors

\* C14: the counter stays in 0 .. MAX_CONSECUTIVE_ERRORS - 1 in every state
\* between rows, and every step follows EscalationStep.
C14_Escalation ==
    /\ [](pc \in {"loop", "final_save", "done"} =>
             /\ 0 <= consecutive_errors
             /\ consecutive_errors < cfg.MAX_CONSECUTIVE_ERRORS)
    /\ [][EscalationStep]_vars

\* Threshold 2: rows 1 and 2 failed and the recovery needed the relaunch;
\* rows 3 and 4 failed and recreating the context was enough.
C14_Witness ==
    /\ pc = "checkpoint" /\ row = 4 /\ ~ok
    /\ cfg.MAX_CONSECUTIVE_ERRORS = 2
    /\ consecutive_errors = 0
    /\ Len(restarts) = 3
    /\ restarts[1].force = FALSE /\ restarts[1].result # "restarted"
    /\ restarts[2].force = TRUE
    /\ restarts[3] = Call(FALSE, "restarted")

---------------------------------------------------------------------------
(* C15: checkpoint cadence.                                                *)

\* The file at OUTPUT holds the metrics `out` has for row i.
InFile(i) ==
    /\ file.exists /\ i <= Len(file.rows)
    /\ SameMetrics(file.rows[i], out[i])

\* The processed rows whose result the file at OUTPUT lacks.
Unsaved == {i \in 1..Len(out) : i < row /\ navs[i] > 0 /\ ~InFile(i)}

\* The end of the k-th processed row saves the whole dataset if k is a
\* multiple of SAVE_INTERVAL and leaves OUTPUT alone if not; between the
\* start of the loop and its end no other step writes OUTPUT.
CadenceStep ==
    /\ pc = "checkpoint" /\ pc' = "loop" =>
          IF processed % cfg.SAVE_INTERVAL = 0
          THEN file' = File(out) /\ out' = out
          ELSE file' = file
    /\ pc \in {"loop", "attempt"} => file' = file

\* C15: every step follows CadenceStep, and when the loop is at a row, about
\* to fetch it or fetching it, the file lacks the results of fewer than
\* SAVE_INTERVAL processed rows: of none when SAVE_INTERVAL is 1.
C15_CheckpointCadence ==
    /\ [](pc = "loop" => Cardinality(Unsaved) <= processed % cfg.SAVE_INTERVAL)
    /\ [](pc \in {"loop", "attempt"} => Cardinality(Unsaved) < cfg.SAVE_INTERVAL)
    /\ [][CadenceStep]_vars

\* SAVE_INTERVAL 2: the first processed row's result is in `out` and not in
\* the file while the loop is at the second row.
C15_Witness ==
    /\ pc = "attempt" /\ row = 2 /\ processed = 2
    /\ cfg.SAVE_INTERVAL = 2
    /\ Unsaved = {1}
    /\ file = prev

---------------------------------------------------------------------------
(* C16: row selection.                                                     *)

\* The rows of the loaded dataset L that have a post_url, lie at or after
\* START_ROW and lack a metric.
Eligible(L) ==
    {i \in 1..Len(L) :
        /\ L[i].post_url # None
        /\ i >= cfg.START_ROW
        /\ ~Filled(L[i])}

\* The first TEST_LIMIT eligible rows; all of them without a cap.
Selected(L) ==
    {i \in Eligible(L) :
        cfg.TEST_LIMIT # None =>
            Cardinality({j \in Eligible(L) : j < i}) < cfg.TEST_LIMIT.val}

\* C16: only selected rows are ever fetched or changed; they are fetched in
\* the order of the dataset, each finished before the next is begun; and a
\* run that reaches its end has fetched every one of them.
C16_RowSelection ==
    LET L == Loaded
        S == Selected(L)
    IN  /\ \A i \in 1..Len(out) :
              i \notin S => navs[i] = 0 /\ out[i] = L[i]
        /\ \A i \in S :
              /\ navs[i] > 0 => i <= row
              /\ i < row /\ pc \in {"loop", "attempt", "checkpoint"} => navs[i] > 0
              /\ pc = "done" => navs[i] > 0

\* TEST_LIMIT 1 and two eligible rows: the finished run fetched the first
\* and left the second, which is beyond the cap, as loaded.
C16_Witness ==
    LET L == Loaded
    IN  /\ pc = "done"
        /\ cfg.TEST_LIMIT = Some(1)
        /\ Eligible(L) = {1, 2} /\ Selected(L) = {1}
        /\ navs[1] > 0 /\ navs[2] = 0 /\ out[2] = L[2]

---------------------------------------------------------------------------
(* SpecCoerce: the run loop on a dataset whose metric cells held text      *)
(* before the coercion: in the prior output under likes or under comments, *)
(* or in the input's own likes column over a prior output that is filled.  *)

\* Rows of the dataset in SpecCoerce.
CoerceRows == 2

CoerceKinds == {"complete", "text_likes", "text_comments", "text_input"}

CoerceInput(kinds) ==
    [i \in 1..Len(kinds) |->
        MkRow(Url(i), IF kinds[i] = "text_input" THEN Text ELSE None,
              None, None, None)]

CoerceStored(kinds) ==
    [i \in 1..Len(kinds) |->
        MkRow(Url(i),
              IF kinds[i] = "text_likes" THEN Text ELSE Some(1),
              IF kinds[i] = "text_comments" THEN Text ELSE Some(0),
              None, None)]

CoerceConfigs == {[DefaultConfig EXCEPT !.START_ROW = s] : s \in {1, 2}}

CoercePairs == ExtractResults \cap {Pair(Some(2), Some(1))}

CoerceInit ==
    /\ \E kinds \in [1..CoerceRows -> CoerceKinds] :
          /\ raw = CoerceInput(kinds)
          /\ prev = File(CoerceStored(kinds))
    /\ out = Load(raw, prev)
    /\ file = prev /\ tmp = NoFile
    /\ cfg \in CoerceConfigs
    /\ shown = CoercePairs
    /\ LoopStart

SpecCoerce == CoerceInit /\ [][Next]_vars

---------------------------------------------------------------------------
(* C17: numeric coercion before the resume skip.                           *)

\* The rows one of whose metric cells held text after the merge.
Leftover ==
    LET M == Merged(raw, prev)
    IN  {i \in 1..Len(raw) : M[i].likes = Text \/ M[i].comments = Text}

\* C17: a metric cell that held text after the merge is absent after load,
\* so its row is not filled; the loop does not pass over such a row as
\* already filled: once the loop is beyond it, it has been fetched, unless
\* it lies before START_ROW.
C17_CoercedRowsAreFetched ==
    LET L == Loaded
        M == Merged(raw, prev)
    IN  \A i \in Leftover :
            /\ M[i].likes = Text => L[i].likes = None
            /\ M[i].comments = Text => L[i].comments = None
            /\ ~Filled(L[i])
            /\ ( /\ i >= cfg.START_ROW
                 /\ i < row \/ pc = "done"
                 /\ pc \in {"loop", "attempt", "checkpoint", "final_save", "done"} )
               => navs[i] > 0

\* The prior output held text under comments and a number under likes for
\* row 1; the finished run fetched the row and stored what the page showed.
C17_Witness ==
    /\ pc = "done"
    /\ prev.rows[1].likes = Some(1) /\ prev.rows[1].comments = Text
    /\ 1 \in Leftover
    /\ navs[1] > 0
    /\ out[1].likes = Some(2) /\ out[1].comments = Some(1)

---------------------------------------------------------------------------
(* C18: an attempt that returns is a row success, whatever it extracted.   *)

\* The row just ended is stored absent/absent.
StoredAbsent == out[row].likes = None /\ out[row].comments = None

\* A row ends as a success exactly when one of its attempts returned, and
\* then the counter is 0 and no recovery runs, be the row stored with
\* values or absent/absent; the counter grows only at the end of a row all
\* of whose attempts raised.
SuccessStep ==
    /\ pc = "attempt" /\ pc' = "checkpoint" /\ ok' =>
          /\ consecutive_errors' = 0
          /\ restarts' = restarts
          /\ navs'[row] <= cfg.RETRY_PER_POST
    /\ consecutive_errors' > consecutive_errors =>
          /\ pc = "attempt" /\ pc' = "checkpoint" /\ ~ok'
          /\ navs'[row] = cfg.RETRY_PER_POST
          /\ last_pair' = last_pair
          /\ consecutive_errors' = consecutive_errors + 1
    /\ restarts' # restarts => pc = "attempt" /\ ~ok'

\* C18: every step follows SuccessStep, and a row whose attempt returned
\* leaves the counter at 0 also when it is stored absent/absent, because
\* the page showed nothing or because the repeated-pair guard discarded
\* what it showed.
C18_ReturnIsSuccess ==
    /\ [](pc = "checkpoint" /\ ok => consecutive_errors = 0)
    /\ [](pc = "checkpoint" /\ ok /\ StoredAbsent =>
             /\ consecutive_errors = 0
             /\ \/ last_pair = Pair(None, None)
                \/ same_pair_streak >= GUARD_STREAK)
    /\ [][SuccessStep]_vars

\* The repeated-pair guard discarded the values of the sixth row, fetched on
\* its second attempt: the row is stored absent/absent with a snapshot and
\* the counter is 0.
C18_Witness ==
    /\ pc = "checkpoint" /\ ok /\ row = 6
    /\ navs[6] = 2
    /\ same_pair_streak >= GUARD_STREAK
    /\ last_pair = Pair(Some(1), Some(0))
    /\ StoredAbsent /\ 6 \in dumps
    /\ consecutive_errors = 0

---------------------------------------------------------------------------
(* SpecStreak: a first run long enough for the repeated-pair guard to trip *)
(* and for rows to follow: a full run with one attempt per row, or a test  *)
(* run of one row with the default two.  The pages show one of two pairs   *)
(* or nothing; the third row may come already filled.                      *)

\* Rows of the dataset in SpecStreak.
StreakRows == 7

StreakConfigs ==
    { [DefaultConfig EXCEPT !.RETRY_PER_POST = 1],
      [DefaultConfig EXCEPT !.TEST_LIMIT = Some(1)] }

StreakPairs ==
    ExtractResults \cap
        {Pair(Some(1), Some(0)), Pair(Some(2), Some(1)), Pair(None, None)}

StreakInit ==
    /\ \E filled \in {0, 3} :
          raw = [i \in 1..StreakRows |->
                    IF i = filled
                    THEN MkRow(Url(i), Some(1), Some(0), None, None)
                    ELSE MkRow(Url(i), None, None, None, None)]
    /\ prev = NoFile
    /\ out = Load(raw, prev)
    /\ file = prev /\ tmp = NoFile
    /\ cfg \in StreakConfigs
    /\ shown = StreakPairs
    /\ LoopStart

SpecStreak == StreakInit /\ [][Next]_vars

---------------------------------------------------------------------------
(* C19: the repeated-pair guard once tripped.                              *)

\* The step is the end of a row one of whose attempts returned.
RowSucceeds == pc = "attempt" /\ pc' = "checkpoint" /\ ok'

\* The guard is tripped.
Tripped == same_pair_streak >= GUARD_STREAK

\* What a step does to the guard.  A returning attempt that yields the pair
\* of the one before, not all-null, adds one to the streak, and any other
\* pair sets it to 0; the row is stored absent/absent with a snapshot when
\* the streak is at the guard's limit, and with the yielded pair when not.
\* A tripped guard stays tripped on the same pair and so clears only on
\* another pair; no other step, a failed or skipped row included, touches
\* the streak or the last pair.
GuardStep ==
    /\ RowSucceeds =>
          LET same == last_pair' = last_pair /\ last_pair' # Pair(None, None)
          IN  /\ same_pair_streak' = IF same THEN same_pair_streak + 1 ELSE 0
              /\ IF same_pair_streak' >= GUARD_STREAK
                 THEN /\ out'[row].likes = None /\ out'[row].comments = None
                      /\ row \in dumps'
                 ELSE Pair(out'[row].likes, out'[row].comments) = last_pair'
              /\ Tripped /\ same =>
                    /\ same_pair_streak' > GUARD_STREAK
                    /\ out'[row].likes = None /\ out'[row].comments = None
    /\ Tripped /\ same_pair_streak' < GUARD_STREAK =>
          /\ RowSucceeds
          /\ last_pair' # last_pair \/ last_pair' = Pair(None, None)
          /\ same_pair_streak' = 0
    /\ ~RowSucceeds =>
          last_pair' = last_pair /\ same_pair_streak' = same_pair_streak

\* C19: every step follows GuardStep, and the guard is tripped only on a
\* pair that is not all-null.
C19_GuardStaysTripped ==
    /\ [](Tripped => last_pair # None /\ last_pair # Pair(None, None))
    /\ [][GuardStep]_vars

\* The guard tripped on the sixth row and the seventh yielded the same pair:
\* both are stored absent/absent, each with a snapshot.
C19_Witness ==
    /\ pc = "checkpoint" /\ ok /\ row = 7
    /\ same_pair_streak = GUARD_STREAK + 1
    /\ last_pair = Pair(Some(1), Some(0))
    /\ \A i \in {6, 7} :
          out[i].likes = None /\ out[i].comments = None /\ i \in dumps
    /\ \A i \in 1..5 : Pair(out[i].likes, out[i].comments) = last_pair

---------------------------------------------------------------------------
(* SpecLive: the runs of Spec in which no KeyboardInterrupt arrives and    *)
(* every call returns or raises, so that the program always takes its next *)
(* step.                                                                   *)

LiveNext ==
    \/ Startup \/ LoopEnd \/ SkipRow \/ BeginRow
    \/ AttemptOk \/ AttemptRetry \/ RowFails
    \/ Checkpoint \/ FinalSave

SpecLive == Init /\ [][LiveNext]_vars /\ WF_vars(LiveNext)

---------------------------------------------------------------------------
(* C20: termination and resource bounds of the run.                        *)

RECURSIVE SumTo(_, _)
SumTo(f, n) == IF n = 0 THEN 0 ELSE f[n] + SumTo(f, n - 1)

\* The page.goto calls made for rows so far.
Navigations == SumTo(navs, Len(navs))

\* A row is begun only if it was never fetched before, the loop never goes
\* back, and a step makes at most two restart_context calls.
VisitStep ==
    /\ row' >= row
    /\ pc = "loop" /\ pc' = "attempt" => navs[row] = 0
    /\ \A i \in 1..Len(navs) : navs'[i] # navs[i] => i = row /\ row' = row
    /\ Len(restarts') <= Len(restarts) + 2

\* C20: a run past its initial login reaches the end of the final save,
\* which leaves the dataset in OUTPUT; on the way every row is visited at
\* most once, the navigations number at most RETRY_PER_POST for each
\* eligible row, and each escalation makes at most two recovery calls.
C20_Terminates ==
    /\ (pc = "loop") ~> (pc = "done" /\ file = File(out))
    /\ [](Navigations <= Cardinality(Eligible(Loaded)) * cfg.RETRY_PER_POST)
    /\ [](pc = "crashed" => logins = <<"login_failed">>)
    /\ [][VisitStep]_vars

\* A finished run in which every attempt of both rows raised and both
\* recovery calls failed.
C20_Witness ==
    /\ pc = "done" /\ file = File(out)
    /\ Cardinality(Eligible(Loaded)) = 2
    /\ Navigations = 2 * cfg.RETRY_PER_POST
    /\ Len(restarts) = 2
    /\ restarts[1].result = "launch_failed" /\ restarts[2].result = "launch_failed"

===========================================================================
